---- MODULE Spec2Model ----
(***************************************************************************)
(* Hybrid retrieval engine of Canvas-RAG-v2: the query classifier and the  *)
(* three retrieval strategies of HybridRetriever.retrieve                  *)
(* (src/src/indexing/vector_store.py), the sparse index and index builder, *)
(* and the query processing of HybridSearchEngine.search                   *)
(* (src/src/retrieval/hybrid_search.py).                                   *)
(*                                                                         *)
(* Python strings are TLA+ strings; substring tests and the regular        *)
(* expressions of the classifier are evaluated character by character.     *)
(***************************************************************************)
EXTENDS Integers, Sequences, FiniteSets, TLC

(***************************************************************************)
(* Bounds of the model.                                                    *)
(***************************************************************************)
MaxDocs == 3        \* segments held by the dense store
MaxN == 2           \* largest n_results of a request

(***************************************************************************)
(* Strings.                                                                *)
(***************************************************************************)
UpperAlpha == "ABCDEFGHIJKLMNOPQRSTUVWXYZ"
LowerAlpha == "abcdefghijklmnopqrstuvwxyz"
Digits == "0123456789"
\* code-point order of the characters that occur in enhancement terms
CharOrder == " -0123456789abcdefghijklmnopqrstuvwxyz"

CharAt(s, i) == SubSeq(s, i, i)

IndexIn(alphabet, c) ==
    IF \E i \in 1..Len(alphabet) : CharAt(alphabet, i) = c
    THEN CHOOSE i \in 1..Len(alphabet) : CharAt(alphabet, i) = c
    ELSE 0

\* one character of str.lower()
LowerChar(c) ==
    IF IndexIn(UpperAlpha, c) > 0 THEN CharAt(LowerAlpha, IndexIn(UpperAlpha, c)) ELSE c

\* str.lower()
Lower(s) ==
    LET low[i \in 0..Len(s)] == IF i = 0 THEN "" ELSE low[i - 1] \o LowerChar(CharAt(s, i))
    IN low[Len(s)]

\* "sub in s"
Contains(s, sub) ==
    \E i \in 1..(Len(s) - Len(sub) + 1) : SubSeq(s, i, i + Len(sub) - 1) = sub

\* sub occurs in s at position p
OccursAt(s, sub, p) ==
    /\ p >= 1
    /\ p + Len(sub) - 1 <= Len(s)
    /\ SubSeq(s, p, p + Len(sub) - 1) = sub

\* the \w class of the re module, for lower-cased ASCII text
IsWordChar(c) == IndexIn(LowerAlpha, c) > 0 \/ IndexIn(Digits, c) > 0 \/ c = "_"

\* \b in front of a literal that starts with a word character, at position p
BoundaryBefore(s, p) == p = 1 \/ ~IsWordChar(CharAt(s, p - 1))

\* \b behind a literal that ends with a word character and ends at position e
BoundaryAfter(s, e) == e = Len(s) \/ ~IsWordChar(CharAt(s, e + 1))

IsSpace(c) == c = " "

\* s.lstrip()
LStrip(s) ==
    IF \A i \in 1..Len(s) : IsSpace(CharAt(s, i)) THEN ""
    ELSE LET first == CHOOSE i \in 1..Len(s) :
                        /\ ~IsSpace(CharAt(s, i))
                        /\ \A j \in 1..(i - 1) : IsSpace(CharAt(s, j))
         IN SubSeq(s, first, Len(s))

\* s.strip().startswith(prefix); the prefixes used do not end in a blank
StripStartsWith(s, prefix) == OccursAt(LStrip(s), prefix, 1)

\* the rest of a pattern  .*G1.*G2 ...  matches s somewhere from position p on;
\* groups is a sequence of sets of literals (alternatives)
MatchFrom(s, groups, p) ==
    LET m[g \in 1..(Len(groups) + 1), from \in 1..(Len(s) + 1)] ==
            IF g > Len(groups) THEN TRUE
            ELSE \E w \in groups[g] : \E q \in from..Len(s) :
                    /\ OccursAt(s, w, q)
                    /\ m[g + 1, q + Len(w)]
    IN IF p > Len(s) + 1 THEN groups = <<>> ELSE m[1, p]

\* re.search(r'\bG1.*G2.*G3', s): groups is the sequence <<G1, G2, G3>>
SearchB(s, groups) ==
    \E w \in Head(groups) : \E q \in 1..Len(s) :
        /\ OccursAt(s, w, q)
        /\ BoundaryBefore(s, q)
        /\ MatchFrom(s, Tail(groups), q + Len(w))

\* re.search(r'\b(w1|w2|...)\b', s)
SearchWord(s, words) ==
    \E w \in words : \E q \in 1..Len(s) :
        /\ OccursAt(s, w, q)
        /\ BoundaryBefore(s, q)
        /\ BoundaryAfter(s, q + Len(w) - 1)

\* re.search(r'\b(w1|w2|...)\b.*\?', s)
SearchWordThenMark(s, words) ==
    \E w \in words : \E q \in 1..Len(s) :
        /\ OccursAt(s, w, q)
        /\ BoundaryBefore(s, q)
        /\ BoundaryAfter(s, q + Len(w) - 1)
        /\ MatchFrom(s, <<{"?"}>>, q + Len(w))

\* a < b for Python strings over CharOrder: at the first position where they
\* differ, a has ended or holds the smaller character
StrLess(a, b) ==
    \E i \in 1..Len(b) :
        /\ i <= Len(a) + 1
        /\ SubSeq(a, 1, i - 1) = SubSeq(b, 1, i - 1)
        /\ \/ i = Len(a) + 1
           \/ IndexIn(CharOrder, CharAt(a, i)) < IndexIn(CharOrder, CharAt(b, i))

\* sorted(S) for a set of strings
SortedStrings(S) ==
    [i \in 1..Cardinality(S) |->
        CHOOSE x \in S : Cardinality({y \in S : StrLess(y, x)}) = i - 1]

\* ' '.join(seq)
JoinBlank(seq) ==
    LET joined[i \in 0..Len(seq)] ==
            IF i = 0 THEN ""
            ELSE IF i = 1 THEN seq[1]
            ELSE joined[i - 1] \o " " \o seq[i]
    IN joined[Len(seq)]

\* a slice that does not cut
TakeAll(seq, k) == seq

\* seq[:k]
Take(seq, k) == SubSeq(seq, 1, IF k < Len(seq) THEN k ELSE Len(seq))

(***************************************************************************)
(* Query classifier of HybridRetriever.                                    *)
(***************************************************************************)
explicit_visual_keywords ==
    { "show me the image", "show me the drawing", "show me the plan",
      "describe the image", "describe the drawing", "describe the plan",
      "analyze the image", "analyze the drawing", "analyze the plan",
      "examine the image", "examine the drawing", "examine the plan",
      "what does the image", "what does the drawing", "what does the plan",
      "identify in the image", "identify in the drawing", "identify in the plan",
      "look at the image", "look at the drawing", "look at the plan",
      "what can you see", "what is visible", "what appears in" }

image_nouns ==
    { "image", "images", "drawing", "drawings", "diagram", "diagrams",
      "plan", "plans", "visual", "visuals", "render", "renders" }

request_verbs ==
    { "list", "show", "display", "provide", "share", "give", "find", "see",
      "available", "include", "pull", "fetch" }

PatternNouns == {"image", "drawing", "plan", "diagram"}

visual_patterns ==
    { <<{"show", "display"}, PatternNouns>>,
      <<{"describe", "analyze", "examine", "identify"}, {"this", "the"}, PatternNouns>>,
      <<{"can you see", "can you find", "can you identify", "can you describe"}, PatternNouns>>,
      <<{"what"}, {"visible", "appears", "shown"}, PatternNouns>> }

\* the patterns of the last loop of is_image_query, which returns False on a
\* match and is followed by "return False"
general_question_patterns ==
    { <<{"what"}, {"topics"}, {"covered"}>>,
      <<{"what"}, {"purpose"}, {"page"}>>,
      <<{"what"}, {"about"}, {"page"}>>,
      <<{"overview"}, {"of"}>>,
      <<{"summary"}, {"of"}>>,
      <<{"topics"}, {"discussed"}>>,
      <<{"what"}, {"includes"}>>,
      <<{"what"}, {"contains"}>> }

is_image_query(query) ==
    LET query_lower == Lower(query)
    IN \/ \E phrase \in explicit_visual_keywords : Contains(query_lower, phrase)
       \/ /\ \E noun \in image_nouns : Contains(query_lower, noun)
          /\ \/ \E verb \in request_verbs : Contains(query_lower, verb)
             \/ StripStartsWith(query_lower, "what")
             \/ StripStartsWith(query_lower, "which")
       \/ \E pattern \in visual_patterns : SearchB(query_lower, pattern)

section_heading_patterns ==
    { <<{"what"}, {"sections"}, {"on"}, {"page"}>>,
      <<{"what"}, {"sections"}, {"covered"}>>,
      <<{"what"}, {"topics"}, {"covered"}>>,
      <<{"what"}, {"headings"}, {"on"}, {"page"}>>,
      <<{"what"}, {"headings"}, {"in"}, {"document"}>>,
      <<{"list"}, {"sections"}>>,
      <<{"list"}, {"headings"}>>,
      <<{"titles"}, {"sections"}>>,
      <<{"section"}, {"titles"}>>,
      <<{"page"}, {"structure"}>>,
      <<{"document"}, {"structure"}>>,
      <<{"main"}, {"topics"}, {"discussed"}>>,
      <<{"main"}, {"sections"}, {"in"}>>,
      <<{"overview"}, {"topics"}>>,
      <<{"table"}, {"contents"}>>,
      <<{"what"}, {"organized"}, {"into"}>>,
      <<{"how"}, {"organized"}>>,
      <<{"what"}, {"parts"}, {"include"}>>,
      <<{"what"}, {"divided"}, {"into"}>> }

title_patterns ==
    { <<{"title"}, {"page"}>>,
      <<{"page"}, {"title"}>>,
      <<{"name"}, {"page"}>>,
      <<{"what"}, {"called"}>>,
      <<{"what"}, {"page"}, {"about"}>> }

is_section_heading_query(query) ==
    LET query_lower == Lower(query)
    IN \/ \E pattern \in section_heading_patterns : SearchB(query_lower, pattern)
       \/ \E pattern \in title_patterns : SearchB(query_lower, pattern)

(***************************************************************************)
(* QueryProcessor: analysis and enhancement of the user query.             *)
(***************************************************************************)
DrawingTypes ==
    { "plan", "section", "elevation", "detail", "perspective", "scale",
      "annotation", "dimensioning", "hatching", "symbols" }

drawing_keywords(t) ==
    CASE t = "plan" -> {"floor plan", "site plan", "plan view", "layout"}
      [] t = "section" -> {"section", "sectional", "cross section", "section cut"}
      [] t = "elevation" -> {"elevation", "facade", "front view", "side view"}
      [] t = "detail" -> {"detail", "detailed", "close-up", "construction detail"}
      [] t = "perspective" -> {"perspective", "3d view", "isometric", "axonometric"}
      [] t = "scale" -> {"scale", "scaling", "dimension", "measurement"}
      [] t = "annotation" -> {"annotation", "label", "text", "callout"}
      [] t = "dimensioning" -> {"dimension", "dimensioning", "measurement line"}
      [] t = "hatching" -> {"hatching", "pattern", "fill", "cross-hatching"}
      [] t = "symbols" -> {"symbol", "notation", "legend", "key"}

ScaleWords == {"scale", "dimension", "size", "measurement"}
VisualWords == {"show", "display", "image", "drawing", "figure", "diagram"}

\* the first entry of question_patterns, in dictionary order, that matches
QuestionType(query_lower) ==
    IF SearchWordThenMark(query_lower, {"what", "which"}) THEN "what"
    ELSE IF SearchWordThenMark(query_lower, {"how"}) THEN "how"
    ELSE IF SearchWordThenMark(query_lower, {"where"}) THEN "where"
    ELSE IF SearchWordThenMark(query_lower, {"when"}) THEN "when"
    ELSE IF SearchWordThenMark(query_lower, {"why"}) THEN "why"
    ELSE IF SearchWord(query_lower, ScaleWords) THEN "scale"
    ELSE IF SearchWord(query_lower, VisualWords) THEN "visual"
    ELSE "general"

analyze_query(query) ==
    LET query_lower == Lower(query)
        visual == SearchWord(query_lower, VisualWords)
        scale == SearchWord(query_lower, ScaleWords)
    IN [ original_query |-> query,
         normalized_query |-> query_lower,
         drawing_types |->
             {t \in DrawingTypes : \E keyword \in drawing_keywords(t) : Contains(query_lower, keyword)},
         question_type |-> QuestionType(query_lower),
         is_visual_query |-> visual,
         intent |-> IF scale THEN "measurement"
                    ELSE IF visual THEN "visual_reasoning"
                    ELSE "factual" ]

query_enhancement_max_terms == 10

AnyIn(words, query_lower) == \E word \in words : Contains(query_lower, word)

NotIn(terms, query_lower) == {term \in terms : ~Contains(query_lower, term)}

\* the set enhanced_terms that enhance_query collects
EnhancedTerms(query, analysis) ==
    LET query_lower == Lower(query)
        synonyms ==
            UNION {NotIn(drawing_keywords(t), query_lower) : t \in analysis.drawing_types}
        section_terms ==
            IF AnyIn({"section", "heading", "topic", "structure"}, query_lower)
            THEN NotIn({"headings", "topics", "sections", "structure", "organization", "outline"},
                       query_lower)
            ELSE {}
        question_type == analysis.question_type
        question_terms ==
            IF question_type = "what" /\ AnyIn({"is", "are", "purpose", "function"}, query_lower)
            THEN {"definition", "purpose", "function", "meaning"}
            ELSE IF question_type = "how" /\ AnyIn({"read", "interpret", "understand"}, query_lower)
            THEN {"method", "technique", "procedure", "process", "steps"}
            ELSE IF question_type = "where" /\ AnyIn({"find", "locate", "position"}, query_lower)
            THEN {"location", "position", "placement", "coordinates"}
            ELSE IF question_type = "when" /\ AnyIn({"produce", "create", "use"}, query_lower)
            THEN {"timing", "phase", "stage", "process"}
            ELSE IF question_type = "why" /\ AnyIn({"important", "necessary", "need"}, query_lower)
            THEN {"importance", "reason", "rationale", "benefit"}
            ELSE {}
        intent_terms ==
            IF analysis.intent = "visual_reasoning"
            THEN NotIn({"diagram", "illustration", "graphic", "visual", "display"}, query_lower)
            ELSE IF analysis.intent = "measurement"
            THEN NotIn({"dimension", "size", "measurement", "scale", "units"}, query_lower)
            ELSE {}
        arch_terms ==
            IF AnyIn({"construction", "building", "design", "architecture"}, query_lower)
            THEN NotIn({"technical", "engineering", "architectural", "design"}, query_lower)
            ELSE {}
    IN synonyms \cup section_terms \cup question_terms \cup intent_terms \cup arch_terms

enhance_query(query, analysis) ==
    LET enhanced_terms == EnhancedTerms(query, analysis)
        sorted_terms == Take(SortedStrings(enhanced_terms), query_enhancement_max_terms)
    IN IF enhanced_terms # {}
       THEN query \o " " \o JoinBlank(sorted_terms)
       ELSE query

(***************************************************************************)
(* Queries submitted in the model.                                         *)
(***************************************************************************)
\* queries given to HybridRetriever.retrieve directly
RetrieveQueries ==
    { "floor plan layout",
      "show me the drawing",
      "list sections in the plan",
      "give an overview of the drawing" }

\* queries given to HybridSearchEngine.search
SearchQueries ==
    { "floor plan layout",
      "list the sections",
      "figure numbering rules",
      "list every heading",
      "What is the purpose?",
      "List all images from Session 5" }

Queries == RetrieveQueries \cup SearchQueries

\* the enhanced form of every query of the model
Enhanced == [q \in Queries |-> enhance_query(q, analyze_query(q))]

\* every string that reaches the classifier in the model
ClassifiedQueries == Queries \cup {Enhanced[q] : q \in Queries}

\* the classifier's verdicts on the strings of the model
Classified ==
    [q \in ClassifiedQueries |->
        [is_image |-> is_image_query(q), is_section |-> is_section_heading_query(q)]]

(***************************************************************************)
(* Segments and the two stores.                                            *)
(*                                                                         *)
(* A segment is the pair (document text, metadata) that the dense store    *)
(* (the Chroma collection) holds under one id.  The collection is the      *)
(* sequence of its segments in the order collection.get() enumerates them; *)
(* the id of a segment is its position in that sequence.  The sparse index *)
(* holds copies of text and metadata; sparse_documents[j] names the        *)
(* segment whose copy sits at index j-1 of SparseIndex.documents and       *)
(* SparseIndex.metadata.                                                   *)
(***************************************************************************)
TextChunk ==
    [content_type |-> "text_chunk", text |-> "text", is_section_heading |-> FALSE,
     has_vision_analysis |-> FALSE]
SectionHeading ==
    [content_type |-> "section_heading", text |-> "heading", is_section_heading |-> TRUE,
     has_vision_analysis |-> FALSE]
ImageReference ==
    [content_type |-> "image_reference", text |-> "[Image: alt]", is_section_heading |-> FALSE,
     has_vision_analysis |-> FALSE]
\* a segment whose document text is the empty string
EmptyChunk ==
    [content_type |-> "text_chunk", text |-> "", is_section_heading |-> FALSE,
     has_vision_analysis |-> FALSE]

SegmentKinds == {TextChunk, SectionHeading, ImageReference, EmptyChunk}

SparseContentTypes == {"text_chunk", "section_content", "section_heading"}

VARIABLES
    collection,         \* VectorStore.collection: sequence of segments
    sparse_documents,   \* SparseIndex.documents / .metadata: sequence of segment ids
    is_initialized,     \* SparseIndex.is_initialized
    pc,                 \* "idle" or "done" (a response is being held)
    req,                \* the request in progress and what its collaborators returned
    resp,               \* the response of retrieve / search
    indexes,            \* the SparseIndex objects that exist, by object number
    active,             \* retriever.sparse_index: number of the object it refers to
    writer,             \* a thread in build_index or SparseIndex.add_documents
    reader              \* a thread in the sparse reads of retrieve

\* the state of the interleaved executions, which the other ones leave alone
concurrent_vars == <<indexes, active, writer, reader>>
\* the state of the stores and of the request served in one piece
store_vars == <<collection, sparse_documents, is_initialized, pc, req, resp>>

vars == <<collection, sparse_documents, is_initialized, pc, req, resp,
          indexes, active, writer, reader>>

(***************************************************************************)
(* Scores are rationals <<numerator, denominator>> with a positive         *)
(* denominator; distances are counted in tenths.                           *)
(***************************************************************************)
RECURSIVE Gcd(_, _)
Gcd(a, b) == IF b = 0 THEN a ELSE Gcd(b, a % b)

Abs(n) == IF n < 0 THEN -n ELSE n

\* n/d in lowest terms
Rat(n, d) == LET g == Gcd(Abs(n), d) IN <<n \div g, d \div g>>
RatAdd(a, b) == Rat(a[1] * b[2] + b[1] * a[2], a[2] * b[2])
RatLess(a, b) == a[1] * b[2] < b[1] * a[2]

\* settings.hybrid_fusion_alpha, in tenths
AlphaTenths == 5
\* the default of the parameter k of reciprocal_rank_fusion
RrfK == 60

\* distance, in tenths, of the segment at position r of the dense ranking:
\* 0.9, 1.0, 1.1, ... (similarities above, at and below zero)
Distance(r) == 8 + r
\* BM25 scores as the environment may choose them
ScoreLevels == {0, 1}

\* the injective sequences of length k over 1..m: the first k of a ranking
Orders(m, k) == {o \in [1..k -> 1..m] : \A i, j \in 1..k : i # j => o[i] # o[j]}

Position(order, seg) == CHOOSE r \in 1..Len(order) : order[r] = seg

RECURSIVE FirstMax(_, _, _)
\* least index of seq from i on whose score is maximal among seq[best], seq[i..]
FirstMax(seq, i, best) ==
    IF i > Len(seq) THEN best
    ELSE FirstMax(seq, i + 1, IF RatLess(seq[best].score, seq[i].score) THEN i ELSE best)

RemoveAt(seq, i) == SubSeq(seq, 1, i - 1) \o SubSeq(seq, i + 1, Len(seq))

\* a descending sort that puts items of equal score in reverse order
SortByScoreDescTiesReversed(seq) ==
    LET Before(j, i) == \/ RatLess(seq[i].score, seq[j].score)
                        \/ (seq[i].score = seq[j].score /\ j > i)
        Pos(i) == 1 + Cardinality({j \in 1..Len(seq) : Before(j, i)})
    IN [p \in 1..Len(seq) |-> seq[CHOOSE i \in 1..Len(seq) : Pos(i) = p]]

RECURSIVE SortByScoreDesc(_)
\* list.sort(key=score, reverse=True): descending and stable
SortByScoreDesc(seq) ==
    IF seq = <<>> THEN <<>>
    ELSE LET i == FirstMax(seq, 2, 1)
         IN <<seq[i]>> \o SortByScoreDesc(RemoveAt(seq, i))

(***************************************************************************)
(* VectorStore.query: the k nearest segments that pass the where filter.   *)
(* order ranks the whole collection by distance to the query embedding;    *)
(* the result is the list of segment ids (Chroma's ids[0]).  A failure of  *)
(* the collection query is caught inside and yields empty lists.           *)
(***************************************************************************)
WhereImage(seg) ==
    \/ seg.content_type = "image"
    \/ seg.content_type = "image_reference"
    \/ seg.has_vision_analysis

VectorStoreQuery(coll, order, k, imagesOnly, fails) ==
    LET Pass(i) == ~imagesOnly \/ WhereImage(coll[i])
    IN IF fails \/ k <= 0 THEN <<>> ELSE Take(SelectSeq(order, Pass), k)

\* 1.0 - distance of a segment
Similarity(order, seg) == Rat(10 - Distance(Position(order, seg)), 10)

(***************************************************************************)
(* SparseIndex.query: all documents with their scores, best first.         *)
(***************************************************************************)
SparseQuery(initialized, scores, k, fails) ==
    IF ~initialized THEN <<>>
    ELSE IF fails THEN <<>>
    ELSE LET results == [j \in 1..Len(scores) |-> [idx |-> j - 1, score |-> Rat(scores[j], 1)]]
         IN Take(SortByScoreDesc(results), k)

(***************************************************************************)
(* HybridRetriever.reciprocal_rank_fusion.  The lists hold records         *)
(* [idx, score]; fused_scores is a dictionary, kept as the sequence of its *)
(* keys in insertion order and the function from keys to entries.          *)
(***************************************************************************)
Put(acc, key, val) ==
    [keys |-> IF key \in DOMAIN acc.info THEN acc.keys ELSE Append(acc.keys, key),
     info |-> (key :> val) @@ acc.info]

\* a reciprocal-rank term over ranks counted from zero
RrfTermFromZero(weight, k, rank) == Rat(weight, 10 * (k + rank - 1))

\* weight * (1.0 / (k + rank)), the weight in tenths
RrfTerm(weight, k, rank) == Rat(weight, 10 * (k + rank))

RECURSIVE FuseDense(_, _, _, _)
FuseDense(acc, dense_results, k, rank) ==
    IF rank > Len(dense_results) THEN acc
    ELSE FuseDense(Put(acc, dense_results[rank].idx,
                       [score |-> RrfTerm(AlphaTenths, k, rank), source |-> "dense"]),
                   dense_results, k, rank + 1)

RECURSIVE FuseSparse(_, _, _, _)
FuseSparse(acc, sparse_results, k, rank) ==
    IF rank > Len(sparse_results) THEN acc
    ELSE LET idx == sparse_results[rank].idx
             term == RrfTerm(10 - AlphaTenths, k, rank)
             entry == IF idx \in DOMAIN acc.info
                      THEN [score |-> RatAdd(acc.info[idx].score, term), source |-> "hybrid"]
                      ELSE [score |-> term, source |-> "sparse"]
         IN FuseSparse(Put(acc, idx, entry), sparse_results, k, rank + 1)

\* fused_scores.items(), in insertion order
FusedItems(fused_scores) ==
    [i \in 1..Len(fused_scores.keys) |->
        [idx |-> fused_scores.keys[i],
         score |-> fused_scores.info[fused_scores.keys[i]].score,
         source |-> fused_scores.info[fused_scores.keys[i]].source]]

reciprocal_rank_fusion(dense_results, sparse_results, k) ==
    LET empty == [keys |-> <<>>, info |-> <<>>]
    IN SortByScoreDesc(FusedItems(
          FuseSparse(FuseDense(empty, dense_results, k, 1), sparse_results, k, 1)))

(***************************************************************************)
(* HybridRetriever.retrieve.                                               *)
(*                                                                         *)
(* env is what the collaborators do during the request:                    *)
(*   order      ranking of the collection by distance to the query         *)
(*   scores     BM25 score of every document of the sparse index           *)
(*   fault      the collaborator call that raises, or "none"               *)
(* A result is [id, seg, text, score, rank, retrieval_source]; seg is the  *)
(* segment whose text and metadata the result carries, 0 when it carries   *)
(* none; retrieval_source is "absent" when the dictionary has no such key. *)
(***************************************************************************)
IsHeadingMeta(seg) == seg.content_type = "section_heading" \/ seg.is_section_heading

\* the is_image test of the image branch (no segment of the model has a file_type)
IsImageMeta(seg) ==
    \/ seg.content_type \in {"image", "image_reference"}
    \/ seg.has_vision_analysis

DenseId(seg) == <<"id", seg>>
SparseId(idx) == <<"sparse", idx>>

Result(id, seg, text, score, rank, source) ==
    [id |-> id, seg |-> seg, text |-> text, score |-> score, rank |-> rank,
     retrieval_source |-> source]

EmptyResponse(strategy, raised) ==
    [strategy |-> strategy, raised |-> raised, results |-> <<>>]

\* the ids of the section headings, last enumerated first
CollectHeadingsLastFirst(coll) ==
    LET IsHeadingAt(i) == IsHeadingMeta(coll[i])
    IN SelectSeq([i \in 1..Len(coll) |-> Len(coll) + 1 - i], IsHeadingAt)

\* the ids of the section headings, in the order collection.get() enumerates them
CollectHeadings(coll) ==
    LET IsHeadingAt(i) == IsHeadingMeta(coll[i])
    IN SelectSeq([i \in 1..Len(coll) |-> i], IsHeadingAt)

\* the section branch
SectionStrategy(coll, n, env) ==
    LET heading_ids == CollectHeadings(coll)
        section_headings ==
            [r \in 1..Len(heading_ids) |->
                Result(DenseId(heading_ids[r]), heading_ids[r], coll[heading_ids[r]].text,
                       Rat(1, 1), r, "absent")]
        additional_ids ==
            VectorStoreQuery(coll, env.order, n - Len(section_headings), FALSE,
                             env.fault = "collection_query")
        NotHeading(i) == ~IsHeadingMeta(coll[i])
        kept == SelectSeq(additional_ids, NotHeading)
        backfill ==
            [r \in 1..Len(kept) |->
                Result(DenseId(kept[r]), kept[r], coll[kept[r]].text,
                       Similarity(env.order, kept[r]),
                       Len(section_headings) + r, "absent")]
    IN IF env.fault = "collection_get" THEN EmptyResponse("section", TRUE)
       ELSE IF Len(section_headings) < n
       THEN IF env.fault = "embed_query" THEN EmptyResponse("section", TRUE)
            ELSE [strategy |-> "section", raised |-> FALSE,
                  results |-> Take(section_headings \o backfill, n)]
       ELSE [strategy |-> "section", raised |-> FALSE, results |-> Take(section_headings, n)]

\* the image-first branch
ImageStrategy(coll, n, env) ==
    LET image_ids ==
            VectorStoreQuery(coll, env.order, n * 2, TRUE, env.fault = "collection_query")
        dense_ids ==
            VectorStoreQuery(coll, env.order, n * 2, FALSE, env.fault = "collection_query")
        considered == Take(image_ids, n \div 2)
        IsImageAt(i) == IsImageMeta(coll[i])
        images == SelectSeq(considered, IsImageAt)
        image_part ==
            [r \in 1..Len(images) |->
                Result(DenseId(images[r]), images[r], coll[images[r]].text,
                       Similarity(env.order, images[r]), r, "absent")]
        remaining_slots == n - Len(image_part)
        NotAdded(i) == \A r \in 1..Len(images) : images[r] # i
        filled == SelectSeq(Take(dense_ids, remaining_slots), NotAdded)
        text_part ==
            [r \in 1..Len(filled) |->
                Result(DenseId(filled[r]), filled[r], coll[filled[r]].text,
                       Similarity(env.order, filled[r]),
                       Len(image_part) + r, "absent")]
    IN IF env.fault = "embed_query" THEN EmptyResponse("image", TRUE)
       ELSE [strategy |-> "image", raised |-> FALSE,
             results |-> IF remaining_slots > 0 THEN image_part \o text_part ELSE image_part]

\* step 4 of the general branch: one fused candidate turned into a result
Assemble(coll, sparse_docs, dense_ids, cand, rank) ==
    LET in_dense == cand.source \in {"dense", "hybrid"} /\ cand.idx < Len(dense_ids)
        in_sparse == /\ ~in_dense
                     /\ cand.source \in {"sparse", "hybrid"}
                     /\ cand.idx < Len(sparse_docs)
    IN IF in_dense
       THEN Result(DenseId(dense_ids[cand.idx + 1]), dense_ids[cand.idx + 1],
                   coll[dense_ids[cand.idx + 1]].text, cand.score, rank, cand.source)
       ELSE IF in_sparse
       THEN Result(SparseId(cand.idx), sparse_docs[cand.idx + 1],
                   coll[sparse_docs[cand.idx + 1]].text, cand.score, rank, cand.source)
       ELSE Result(<<"none", 0>>, 0, "", cand.score, rank, cand.source)

\* step 1 of the general branch: (position in the dense list, 1 - distance)
DenseResults(order, dense_ids) ==
    [i \in 1..Len(dense_ids) |-> [idx |-> i - 1, score |-> Similarity(order, dense_ids[i])]]

\* a fusion step without the branches for one empty list
FusedResultsBothOrNothing(dense_results, sparse_results) ==
    IF dense_results # <<>> /\ sparse_results # <<>>
    THEN reciprocal_rank_fusion(dense_results, sparse_results, RrfK)
    ELSE <<>>

\* step 3 of the general branch: fusion, or the one list that is not empty
FusedResults(dense_results, sparse_results) ==
    IF dense_results # <<>> /\ sparse_results # <<>>
    THEN reciprocal_rank_fusion(dense_results, sparse_results, RrfK)
    ELSE IF dense_results # <<>>
    THEN [i \in 1..Len(dense_results) |->
            [idx |-> dense_results[i].idx, score |-> dense_results[i].score,
             source |-> "dense"]]
    ELSE [i \in 1..Len(sparse_results) |->
            [idx |-> sparse_results[i].idx, score |-> sparse_results[i].score,
             source |-> "sparse"]]

\* step 4 of the general branch: the top n candidates that carry a text
FinalResults(coll, sparse_docs, dense_ids, top) ==
    LET assembled == [r \in 1..Len(top) |-> Assemble(coll, sparse_docs, dense_ids, top[r], r)]
        HasText(result) == result.text # ""
    IN SelectSeq(assembled, HasText)

\* the general hybrid branch
GeneralStrategy(coll, sparse_docs, initialized, n, env) ==
    LET dense_ids ==
            VectorStoreQuery(coll, env.order, n * 2, FALSE, env.fault = "collection_query")
        sparse_results == SparseQuery(initialized, env.scores, n * 2, env.fault = "bm25")
        fused_results == FusedResults(DenseResults(env.order, dense_ids), sparse_results)
    IN IF env.fault = "embed_query" THEN EmptyResponse("general", TRUE)
       ELSE [strategy |-> "general", raised |-> FALSE,
             results |-> FinalResults(coll, sparse_docs, dense_ids, Take(fused_results, n))]

\* a dispatch that tests image intent before section intent
retrieve_image_before_section(coll, sparse_docs, initialized, query, n, original_query, env) ==
    LET analysis_query == IF original_query # "" THEN original_query ELSE query
        is_image == Classified[analysis_query].is_image
        is_section == Classified[analysis_query].is_section
    IN IF is_image THEN ImageStrategy(coll, n, env)
       ELSE IF is_section THEN SectionStrategy(coll, n, env)
       ELSE GeneralStrategy(coll, sparse_docs, initialized, n, env)

\* retrieve(query, n_results, original_query=...); original_query "" stands for None
retrieve(coll, sparse_docs, initialized, query, n, original_query, env) ==
    LET analysis_query == IF original_query # "" THEN original_query ELSE query
        is_image == Classified[analysis_query].is_image
        is_section == Classified[analysis_query].is_section
    IN IF is_section THEN SectionStrategy(coll, n, env)
       ELSE IF is_image THEN ImageStrategy(coll, n, env)
       ELSE GeneralStrategy(coll, sparse_docs, initialized, n, env)

(***************************************************************************)
(* What the collaborators may do during one request.  A collaborator that  *)
(* the request never calls, or whose answer it never reads, is given one   *)
(* fixed value, so that a request is recorded once.                        *)
(***************************************************************************)
StrategyOf(query, original_query) ==
    LET analysis_query == IF original_query # "" THEN original_query ELSE query
    IN IF Classified[analysis_query].is_section THEN "section"
       ELSE IF Classified[analysis_query].is_image THEN "image"
       ELSE "general"

HeadingCount(coll) == Cardinality({i \in 1..Len(coll) : IsHeadingMeta(coll[i])})

Identity(m) == [i \in 1..m |-> i]

\* rankings of m segments that differ in their first seen positions
OrdersSeen(m, seen) ==
    LET k == IF seen < 0 THEN 0 ELSE IF seen < m THEN seen ELSE m
        Rest(p) == LET Unranked(i) == \A r \in 1..k : p[r] # i
                   IN SelectSeq([i \in 1..m |-> i], Unranked)
    IN { p \o Rest(p) : p \in Orders(m, k) }

\* the collaborator calls the request makes
CallsGet(strategy) == strategy = "section"
CallsEmbed(coll, strategy, n) == strategy # "section" \/ HeadingCount(coll) < n
CallsBm25(initialized, strategy) == strategy = "general" /\ initialized

\* the faults that can happen during the request
EnvFaults(coll, initialized, strategy, n) ==
    {"none"}
    \cup (IF CallsGet(strategy) THEN {"collection_get"} ELSE {})
    \cup (IF CallsEmbed(coll, strategy, n) THEN {"embed_query", "collection_query"} ELSE {})
    \cup (IF CallsBm25(initialized, strategy) THEN {"bm25"} ELSE {})

\* the dense rankings the request can tell apart
EnvOrders(coll, strategy, n, fault) ==
    LET requested == IF strategy = "section" THEN n - HeadingCount(coll)
                     ELSE IF strategy = "image" THEN Len(coll)
                     ELSE n * 2
    IN IF CallsEmbed(coll, strategy, n) /\ fault \in {"none", "bm25"} /\ n > 0
       THEN OrdersSeen(Len(coll), requested)
       ELSE {Identity(Len(coll))}

\* the BM25 scores the request can tell apart
EnvScores(sparse_docs, initialized, strategy, n, fault) ==
    IF CallsBm25(initialized, strategy) /\ fault \in {"none", "collection_query"} /\ n > 0
    THEN [1..Len(sparse_docs) -> ScoreLevels]
    ELSE {[j \in 1..Len(sparse_docs) |-> 0]}

(***************************************************************************)
(* The state machine.                                                      *)
(***************************************************************************)
NoRequest == [via |-> "none"]
NoResponse == [strategy |-> "none", raised |-> FALSE, results |-> <<>>]

\* no thread is running
NoThreads ==
    /\ indexes = <<>>
    /\ active = 0
    /\ writer = [pc |-> "idle"]
    /\ reader = [pc |-> "idle"]

\* settings.enable_query_enhancement
enable_query_enhancement == TRUE

Init ==
    /\ collection = <<>>
    /\ sparse_documents = <<>>
    /\ is_initialized = FALSE
    /\ pc = "idle"
    /\ req = NoRequest
    /\ resp = NoResponse
    /\ NoThreads

\* the documents build_index takes from the content file: segments with a text
Indexable(batch) ==
    LET HasDocText(seg) == seg.text # ""
    IN SelectSeq(batch, HasDocText)

\* ids, in the grown collection, of the documents that go to the sparse index
SparseIds(coll, from) ==
    LET IsSparseText(i) == i > from
                           /\ coll[i].content_type \in SparseContentTypes
                           /\ coll[i].text # ""
    IN SelectSeq([i \in 1..Len(coll) |-> i], IsSparseText)

\* IndexBuilder.build_index on a content file holding the segments of batch
BuildIndex(batch) ==
    LET documents == Indexable(batch)
        grown == collection \o documents
        sparse_new == SparseIds(grown, Len(collection))
    IN /\ pc = "idle"
       /\ Len(collection) + Len(documents) <= MaxDocs
       /\ IF documents = <<>>
          THEN UNCHANGED <<collection, sparse_documents, is_initialized>>
          ELSE /\ collection' = grown
               /\ IF sparse_new # <<>>
                  THEN /\ sparse_documents' = sparse_new
                       /\ is_initialized' = TRUE
                  ELSE UNCHANGED <<sparse_documents, is_initialized>>
       /\ UNCHANGED <<pc, req, resp>>
       /\ UNCHANGED concurrent_vars

\* VectorStore.add_documents called directly with one document
AddDocuments(seg) ==
    /\ pc = "idle"
    /\ Len(collection) < MaxDocs
    /\ collection' = Append(collection, seg)
    /\ UNCHANGED <<sparse_documents, is_initialized, pc, req, resp>>
    /\ UNCHANGED concurrent_vars

\* IndexBuilder.__init__ over the persisted collection: a fresh sparse index,
\* populated by _populate_sparse_index_from_existing
NewIndexBuilder ==
    LET text_documents == SparseIds(collection, 0)
    IN /\ pc = "idle"
       /\ sparse_documents' = text_documents
       /\ is_initialized' = (text_documents # <<>>)
       /\ UNCHANGED <<collection, pc, req, resp>>
       /\ UNCHANGED concurrent_vars

\* the dictionary search returns for the raw results of retrieve; error is
\* "absent" when the dictionary has no 'error' key
SearchResponse(query, raw_results) ==
    IF raw_results = <<>>
    THEN [query |-> query, results |-> <<>>, total_results |-> 0, error |-> "absent"]
    ELSE [query |-> query,
          results |-> [i \in 1..Len(raw_results) |->
                          [id |-> raw_results[i].id, text |-> raw_results[i].text,
                           score |-> raw_results[i].score, rank |-> raw_results[i].rank]],
          total_results |-> Len(raw_results), error |-> "absent"]

\* one call of retriever.retrieve(retrieve_query, n) and what the stores do during it
CallRetrieve(via, query, retrieve_query, n) ==
    LET strategy == StrategyOf(retrieve_query, "")
    IN /\ pc = "idle"
       /\ \E fault \in EnvFaults(collection, is_initialized, strategy, n) :
          \E order \in EnvOrders(collection, strategy, n, fault) :
          \E scores \in EnvScores(sparse_documents, is_initialized, strategy, n, fault) :
             LET env == [order |-> order, scores |-> scores, fault |-> fault]
             IN /\ req' = [via |-> via, query |-> query, retrieve_query |-> retrieve_query,
                           n |-> n, env |-> env]
                /\ resp' = retrieve(collection, sparse_documents, is_initialized,
                                    retrieve_query, n, "", env)
       /\ pc' = "done"
       /\ UNCHANGED <<collection, sparse_documents, is_initialized>>
       /\ UNCHANGED concurrent_vars

\* HybridRetriever.retrieve(query, n_results) called directly
Retrieve(query, n) == CallRetrieve("retrieve", query, query, n)

\* HybridSearchEngine.search(query, n_results) up to the retrieval it performs
Search(query, n) ==
    CallRetrieve("search", query, IF enable_query_enhancement THEN Enhanced[query] ELSE query, n)

\* the caller takes the response
Return ==
    /\ pc = "done"
    /\ pc' = "idle"
    /\ req' = NoRequest
    /\ resp' = NoResponse
    /\ UNCHANGED <<collection, sparse_documents, is_initialized>>
    /\ UNCHANGED concurrent_vars

MaxBatch == 2       \* segments in one content file

Batches == UNION {[1..m -> SegmentKinds] : m \in 1..MaxBatch}

Next ==
    \/ \E batch \in Batches : BuildIndex(batch)
    \/ AddDocuments(EmptyChunk)
    \/ NewIndexBuilder
    \/ \E query \in RetrieveQueries, n \in 0..MaxN : Retrieve(query, n)
    \/ \E query \in SearchQueries, n \in 0..MaxN : Search(query, n)
    \/ Return

Spec == Init /\ [][Next]_vars

(***************************************************************************)
(* A second specification: an index builder constructed over a persisted   *)
(* collection of WideDocs text chunks, so that the sparse index holds more *)
(* documents than a dense query of 2n candidates returns.                  *)
(***************************************************************************)
WideDocs == 7       \* text chunks in the persisted collection
WideN == 2          \* results asked of it

InitWide ==
    /\ collection = [i \in 1..WideDocs |-> TextChunk]
    /\ sparse_documents = SparseIds([i \in 1..WideDocs |-> TextChunk], 0)
    /\ is_initialized = TRUE
    /\ pc = "idle"
    /\ req = NoRequest
    /\ resp = NoResponse
    /\ NoThreads

NextWide ==
    \/ Retrieve("floor plan layout", WideN)
    \/ Return

SpecWide == InitWide /\ [][NextWide]_vars

(***************************************************************************)
(* Ingestion through the index builder alone: builders are constructed,    *)
(* build_index is called and requests read the stores; nothing writes to   *)
(* the vector store behind the builder.                                    *)
(***************************************************************************)
NextIngest ==
    \/ \E batch \in Batches : BuildIndex(batch)
    \/ NewIndexBuilder
    \/ \E query \in RetrieveQueries, n \in 0..MaxN : Retrieve(query, n)
    \/ Return

SpecIngest == Init /\ [][NextIngest]_vars

(***************************************************************************)
(* SparseIndex.query called directly on the index the builder has built.   *)
(***************************************************************************)
\* str.split(): the words between runs of blanks
Split(s) ==
    LET IsStart(i) == ~IsSpace(CharAt(s, i)) /\ (i = 1 \/ IsSpace(CharAt(s, i - 1)))
        IsEnd(i) == ~IsSpace(CharAt(s, i)) /\ (i = Len(s) \/ IsSpace(CharAt(s, i + 1)))
        starts == SelectSeq([i \in 1..Len(s) |-> i], IsStart)
        ends == SelectSeq([i \in 1..Len(s) |-> i], IsEnd)
    IN [w \in 1..Len(starts) |-> SubSeq(s, starts[w], ends[w])]

\* tokenized_docs of add_documents: [doc.lower().split() for doc in self.documents]
TokenizedDocs(coll, sparse_docs) ==
    [i \in 1..Len(sparse_docs) |-> Split(Lower(coll[sparse_docs[i]].text))]

\* bm25.get_scores(tokenized_query): a sum over the query tokens, so zero for
\* every document when there is no token, and else what the environment says
GetScores(tokenized_query, scores) ==
    IF tokenized_query = <<>> THEN [j \in 1..Len(scores) |-> 0] ELSE scores

\* SparseIndex.query(query, n_results)
SparseIndex_query(initialized, query, n_results, env) ==
    LET tokenized_query == Split(Lower(query))
    IN SparseQuery(initialized, GetScores(tokenized_query, env.scores), n_results,
                   env.fault = "bm25")

SparseQueries == {"", "  ", "Floor plan", "the floor-plan?"}

SparseIndexQuery(query, n_results) ==
    /\ pc = "idle"
    /\ \E fault \in (IF is_initialized THEN {"none", "bm25"} ELSE {"none"}) :
       \E scores \in (IF is_initialized /\ fault = "none" /\ n_results > 0
                      THEN [1..Len(sparse_documents) -> ScoreLevels]
                      ELSE {[j \in 1..Len(sparse_documents) |-> 0]}) :
          LET env == [order |-> Identity(Len(collection)), scores |-> scores,
                      fault |-> fault]
          IN /\ req' = [via |-> "sparse_index", query |-> query, retrieve_query |-> query,
                        n |-> n_results, env |-> env]
             /\ resp' = [strategy |-> "sparse_index", raised |-> FALSE,
                         results |-> SparseIndex_query(is_initialized, query, n_results, env)]
    /\ pc' = "done"
    /\ UNCHANGED <<collection, sparse_documents, is_initialized>>
    /\ UNCHANGED concurrent_vars

NextSparse ==
    \/ \E batch \in Batches : BuildIndex(batch)
    \/ NewIndexBuilder
    \/ \E query \in SparseQueries, n_results \in 0..(MaxN * 2) : SparseIndexQuery(query, n_results)
    \/ Return

SpecSparse == Init /\ [][NextSparse]_vars

(***************************************************************************)
(* ResultProcessor: the methods called one at a time on their own inputs.  *)
(***************************************************************************)
\* the step of the window scan of highlight_query_terms
HighlightStep == 50

\* text[start:start + length], start counted from 0
Slice(text, start, length) ==
    SubSeq(text, start + 1, IF start + length < Len(text) THEN start + length ELSE Len(text))

\* sum(1 for term in query_terms if term.lower() in snippet)
MatchCount(text_lower, query_terms, start, max_length) ==
    LET snippet == Slice(text_lower, start, max_length)
    IN Cardinality({t \in 1..Len(query_terms) : Contains(snippet, Lower(query_terms[t]))})

\* the scan: best_start after the loop over range(0, len(text) - max_length + 1, 50)
BestStart(text, query_terms, max_length) ==
    LET text_lower == Lower(text)
        last == (Len(text) - max_length) \div HighlightStep
        Starts == IF Len(text) - max_length < 0 THEN {}
                  ELSE {HighlightStep * w : w \in 0..last}
        Count(i) == MatchCount(text_lower, query_terms, i, max_length)
        Best == {i \in Starts : /\ Count(i) > 0
                                /\ \A j \in Starts : Count(j) <= Count(i)}
    IN IF Best = {} THEN 0
       ELSE CHOOSE i \in Best : \A j \in Best : i <= j

\* re.compile(re.escape(term), re.IGNORECASE).sub("**term**", s)
SubIgnoreCase(s, term) ==
    LET low == Lower(s)
        pattern == Lower(term)
        out[p \in 1..(Len(s) + 1)] ==
            IF p > Len(s) THEN ""
            ELSE IF OccursAt(low, pattern, p)
            THEN "**" \o term \o "**" \o out[p + Len(pattern)]
            ELSE CharAt(s, p) \o out[p + 1]
    IN out[1]

\* highlight_query_terms(text, query_terms, max_length)
highlight_query_terms(text, query_terms, max_length) ==
    IF text = "" \/ query_terms = <<>>
    THEN [best_start |-> 0, highlighted |-> Slice(text, 0, max_length)]
    ELSE LET best_start == BestStart(text, query_terms, max_length)
             snippet == Slice(text, best_start, max_length)
             marked[t \in 0..Len(query_terms)] ==
                 IF t = 0 THEN snippet ELSE SubIgnoreCase(marked[t - 1], query_terms[t])
         IN [best_start |-> best_start,
             highlighted |->
                 (IF best_start > 0 THEN "..." ELSE "")
                 \o marked[Len(query_terms)]
                 \o (IF best_start + max_length < Len(text) THEN "..." ELSE "")]

\* n characters that belong to no query term
Dots(n) == SubSeq("..............................", 1, n)

\* result texts: two words of the corpus at varying distances
Gaps == {0, 8, 25}
HighlightTexts ==
    {Dots(a) \o "Plan" \o Dots(b) \o "scale" \o Dots(c) : a, b, c \in Gaps} \cup {""}
HighlightTerms == {<<>>, <<"plan">>, <<"Scale">>, <<"plan", "scale">>}
HighlightLengths == {10, 30}

HighlightQueryTerms(text, query_terms, max_length) ==
    /\ pc = "idle"
    /\ req' = [via |-> "highlight_query_terms", text |-> text,
               query_terms |-> query_terms, max_length |-> max_length]
    /\ resp' = [strategy |-> "highlight_query_terms", raised |-> FALSE,
                results |-> highlight_query_terms(text, query_terms, max_length)]
    /\ pc' = "done"
    /\ UNCHANGED <<collection, sparse_documents, is_initialized>>
    /\ UNCHANGED concurrent_vars

\* the key of the source of a result; "absent" stands for a missing key of the
\* metadata
SourceKey(metadata) ==
    LET source_key == IF metadata.source_id = "absent" THEN "unknown" ELSE metadata.source_id
    IN IF metadata.source_type = "page" THEN "page_" \o source_key
       ELSE IF metadata.source_type = "file"
       THEN "file_" \o (IF metadata.filename = "absent" THEN source_key ELSE metadata.filename)
       ELSE source_key

\* a grouping that keeps, for every source, only the result seen last
GroupKeepingLastOnly(results) ==
    LET grouped[i \in 0..Len(results)] ==
            IF i = 0 THEN [keys |-> <<>>, info |-> <<>>]
            ELSE Put(grouped[i - 1], SourceKey(results[i].metadata), <<results[i]>>)
    IN grouped[Len(results)]

\* group_results_by_source(results): the dictionary as the sequence of its
\* keys in insertion order and the function from keys to groups
group_results_by_source(results) ==
    LET grouped[i \in 0..Len(results)] ==
            IF i = 0 THEN [keys |-> <<>>, info |-> <<>>]
            ELSE LET source_key == SourceKey(results[i].metadata)
                     group == IF source_key \in DOMAIN grouped[i - 1].info
                              THEN grouped[i - 1].info[source_key]
                              ELSE <<>>
                 IN Put(grouped[i - 1], source_key, Append(group, results[i]))
    IN grouped[Len(results)]

\* sum(result.score for result in results)
TotalScore(results) ==
    LET total[i \in 0..Len(results)] ==
            IF i = 0 THEN Rat(0, 1) ELSE RatAdd(total[i - 1], results[i].score)
    IN total[Len(results)]

\* the average score of a group
AverageScore(results) == LET total == TotalScore(results) IN Rat(total[1], total[2] * Len(results))

\* boosted_score = total_score + (len(results) - 1) * 0.1
BoostedScore(results) == RatAdd(TotalScore(results), Rat(Len(results) - 1, 10))

\* rank_sources_by_relevance(grouped_results): (source_key, results) tuples
rank_sources_by_relevance(grouped_results) ==
    LET source_scores ==
            [i \in 1..Len(grouped_results.keys) |->
                [source_key |-> grouped_results.keys[i],
                 results |-> grouped_results.info[grouped_results.keys[i]],
                 score |-> BoostedScore(grouped_results.info[grouped_results.keys[i]])]]
        sorted == SortByScoreDesc(source_scores)
    IN [i \in 1..Len(sorted) |-> <<sorted[i].source_key, sorted[i].results>>]

\* results handed to the processor: at most MaxResults, each from one of the
\* sources below, with one of the scores below
MaxResults == 3
ResultSources ==
    { [source_id |-> "7", source_type |-> "page", filename |-> "absent"],
      [source_id |-> "7", source_type |-> "file", filename |-> "a.pdf"],
      [source_id |-> "page_7", source_type |-> "absent", filename |-> "absent"],
      [source_id |-> "absent", source_type |-> "absent", filename |-> "absent"] }
ResultScores == {Rat(1, 10), Rat(1, 4)}

\* the grouping and ranking step of search on a list of search results
GroupAndRankSources(search_results) ==
    /\ pc = "idle"
    /\ req' = [via |-> "group_and_rank", results |-> search_results]
    /\ resp' = [strategy |-> "group_and_rank", raised |-> FALSE,
                results |->
                    LET grouped_results == group_results_by_source(search_results)
                    IN [grouped_results |-> grouped_results,
                        ranked_sources |-> rank_sources_by_relevance(grouped_results)]]
    /\ pc' = "done"
    /\ UNCHANGED <<collection, sparse_documents, is_initialized>>
    /\ UNCHANGED concurrent_vars

NextProcessor ==
    \/ \E text \in HighlightTexts, query_terms \in HighlightTerms,
          max_length \in HighlightLengths :
          HighlightQueryTerms(text, query_terms, max_length)
    \/ \E m \in 0..MaxResults :
       \E metadata \in [1..m -> ResultSources], score \in [1..m -> ResultScores] :
          GroupAndRankSources([i \in 1..m |->
              [rank |-> i, score |-> score[i], metadata |-> metadata[i]]])
    \/ Return

SpecProcessor == Init /\ [][NextProcessor]_vars

(***************************************************************************)
(* Interleaved execution: one thread in build_index or in                  *)
(* SparseIndex.add_documents and one thread in the sparse reads of the     *)
(* general branch of retrieve, interleaved at their attribute accesses.    *)
(* The code takes no lock.  A document is <<w, j>>: the j-th document of   *)
(* write w, write 0 being what the index held at the start.  A SparseIndex *)
(* object is [documents, metadata, bm25, is_initialized], bm25 being the   *)
(* document list BM25Okapi was built from (<<>> for None).                 *)
(***************************************************************************)
InitialDocs == 2    \* documents of the index the retriever starts with
MaxWrites == 2      \* calls of build_index and add_documents

\* the documents of write w
WriteDocs(w, size) == [j \in 1..size |-> <<w, j>>]

\* SparseIndex.__init__
NewSparseIndex == [documents |-> <<>>, metadata |-> <<>>, bm25 |-> <<>>, is_initialized |-> FALSE]

InitThreads ==
    /\ collection = <<>>
    /\ sparse_documents = <<>>
    /\ is_initialized = FALSE
    /\ pc = "idle"
    /\ req = NoRequest
    /\ resp = NoResponse
    /\ indexes = << [documents |-> WriteDocs(0, InitialDocs), metadata |-> WriteDocs(0, InitialDocs),
                     bm25 |-> WriteDocs(0, InitialDocs), is_initialized |-> TRUE] >>
    /\ active = 1
    /\ writer = [pc |-> "idle", writes |-> 0]
    /\ reader = [pc |-> "idle"]

\* build_index: self.sparse_index = SparseIndex(), then add_documents on it
StartBuildIndex(size) ==
    /\ writer.pc = "idle"
    /\ writer.writes < MaxWrites
    /\ indexes' = Append(indexes, NewSparseIndex)
    /\ writer' = [pc |-> "extend_documents", kind |-> "build_index", target |-> Len(indexes) + 1,
                  batch |-> WriteDocs(writer.writes + 1, size), writes |-> writer.writes + 1]
    /\ UNCHANGED <<active, reader>>
    /\ UNCHANGED store_vars

\* SparseIndex.add_documents called on the index the retriever refers to
StartAddDocuments(size) ==
    /\ writer.pc = "idle"
    /\ writer.writes < MaxWrites
    /\ writer' = [pc |-> "extend_documents", kind |-> "add_documents", target |-> active,
                  batch |-> WriteDocs(writer.writes + 1, size), writes |-> writer.writes + 1]
    /\ UNCHANGED <<indexes, active, reader>>
    /\ UNCHANGED store_vars

\* self.documents.extend(documents)
ExtendDocuments ==
    /\ writer.pc = "extend_documents"
    /\ indexes' = [indexes EXCEPT ![writer.target].documents = @ \o writer.batch]
    /\ writer' = [writer EXCEPT !.pc = "extend_metadata"]
    /\ UNCHANGED <<active, reader>>
    /\ UNCHANGED store_vars

\* self.metadata.extend(metadata)
ExtendMetadata ==
    /\ writer.pc = "extend_metadata"
    /\ indexes' = [indexes EXCEPT ![writer.target].metadata = @ \o writer.batch]
    /\ writer' = [writer EXCEPT !.pc = "build_bm25"]
    /\ UNCHANGED <<active, reader>>
    /\ UNCHANGED store_vars

\* a BM25 object built from the documents of the call alone
BuildBm25FromBatch ==
    /\ writer.pc = "build_bm25"
    /\ indexes' = [indexes EXCEPT ![writer.target].bm25 = writer.batch]
    /\ writer' = [writer EXCEPT !.pc = "set_initialized"]
    /\ UNCHANGED <<active, reader>>
    /\ UNCHANGED store_vars

\* self.bm25 = BM25Okapi(tokenized_docs), from all of self.documents
BuildBm25 ==
    /\ writer.pc = "build_bm25"
    /\ indexes' = [indexes EXCEPT ![writer.target].bm25 = indexes[writer.target].documents]
    /\ writer' = [writer EXCEPT !.pc = "set_initialized"]
    /\ UNCHANGED <<active, reader>>
    /\ UNCHANGED store_vars

\* self.is_initialized = True; add_documents returns
SetInitialized ==
    /\ writer.pc = "set_initialized"
    /\ indexes' = [indexes EXCEPT ![writer.target].is_initialized = TRUE]
    /\ writer' = [writer EXCEPT !.pc = IF writer.kind = "build_index" THEN "swap" ELSE "idle"]
    /\ UNCHANGED <<active, reader>>
    /\ UNCHANGED store_vars

\* build_index: self.retriever.sparse_index = self.sparse_index
SwapReference ==
    /\ writer.pc = "swap"
    /\ active' = writer.target
    /\ writer' = [writer EXCEPT !.pc = "idle"]
    /\ UNCHANGED <<indexes, reader>>
    /\ UNCHANGED store_vars

\* retrieve, step 2: if self.sparse_index.is_initialized
ReadIsInitialized ==
    /\ reader.pc = "idle"
    /\ reader' = IF indexes[active].is_initialized
                 THEN [pc |-> "query"]
                 ELSE [pc |-> "done", outcome |-> "no_sparse_results"]
    /\ UNCHANGED <<indexes, active, writer>>
    /\ UNCHANGED store_vars

\* retrieve, step 2: self.sparse_index.query(query, n_results * 2); idx is the
\* index of the sparse candidate that assembly will look up
QuerySparse(idx) ==
    /\ reader.pc = "query"
    /\ IF ~indexes[active].is_initialized
       THEN reader' = [pc |-> "done", outcome |-> "no_sparse_results"]
       ELSE /\ idx < Len(indexes[active].bm25)
            /\ reader' = [pc |-> "check_length", idx |-> idx, scored |-> indexes[active].bm25]
    /\ UNCHANGED <<indexes, active, writer>>
    /\ UNCHANGED store_vars

\* retrieve, step 4: if result_idx < len(self.sparse_index.documents)
CheckLength ==
    /\ reader.pc = "check_length"
    /\ reader' = IF reader.idx < Len(indexes[active].documents)
                 THEN [reader EXCEPT !.pc = "read_document"]
                 ELSE [pc |-> "done", outcome |-> "dropped"]
    /\ UNCHANGED <<indexes, active, writer>>
    /\ UNCHANGED store_vars

\* retrieve, step 4: doc_text = self.sparse_index.documents[result_idx]; an
\* IndexError ends in the exception handler of retrieve
ReadDocument ==
    /\ reader.pc = "read_document"
    /\ reader' = IF reader.idx < Len(indexes[active].documents)
                 THEN [pc |-> "read_metadata", idx |-> reader.idx, scored |-> reader.scored,
                       text |-> indexes[active].documents[reader.idx + 1]]
                 ELSE [pc |-> "done", outcome |-> "raised"]
    /\ UNCHANGED <<indexes, active, writer>>
    /\ UNCHANGED store_vars

\* retrieve, step 4: metadata = self.sparse_index.metadata[result_idx]
ReadMetadata ==
    /\ reader.pc = "read_metadata"
    /\ reader' = IF reader.idx < Len(indexes[active].metadata)
                 THEN [pc |-> "done", outcome |-> "result", idx |-> reader.idx,
                       scored |-> reader.scored, text |-> reader.text,
                       metadata |-> indexes[active].metadata[reader.idx + 1]]
                 ELSE [pc |-> "done", outcome |-> "raised"]
    /\ UNCHANGED <<indexes, active, writer>>
    /\ UNCHANGED store_vars

\* retrieve returns; the next request may start
ReaderReturn ==
    /\ reader.pc = "done"
    /\ reader' = [pc |-> "idle"]
    /\ UNCHANGED <<indexes, active, writer>>
    /\ UNCHANGED store_vars

NextThreads ==
    \/ \E size \in 1..MaxBatch : StartBuildIndex(size)
    \/ \E size \in 1..MaxBatch : StartAddDocuments(size)
    \/ ExtendDocuments
    \/ ExtendMetadata
    \/ BuildBm25
    \/ SetInitialized
    \/ SwapReference
    \/ ReadIsInitialized
    \/ \E idx \in 0..(InitialDocs + MaxWrites * MaxBatch - 1) : QuerySparse(idx)
    \/ CheckLength
    \/ ReadDocument
    \/ ReadMetadata
    \/ ReaderReturn

SpecThreads == InitThreads /\ [][NextThreads]_vars

(***************************************************************************)
(* The claims about HybridRetriever.retrieve and HybridSearchEngine.search. *)
(* A response is looked at while the caller holds it (pc = "done").        *)
(***************************************************************************)
Results == resp.results

\* the segments the stores rank first for the request in progress
DenseFirst == req.env.order[1]
SparseFirst ==
    sparse_documents[SparseQuery(is_initialized, req.env.scores, req.n * 2, FALSE)[1].idx + 1]

\* the request was served with no collaborator call failing
FaultFree == pc = "done" /\ req.env.fault = "none"

\* C1: in the general hybrid strategy, when one segment is ranked first by
\* both the dense path and the sparse path, the first returned result is that
\* segment, under its own id and with its own text, with provenance 'hybrid'.
C1_TopOfBothIsFirstHybrid ==
    ( /\ FaultFree
      /\ resp.strategy = "general"
      /\ req.n >= 1
      /\ collection # <<>>
      /\ is_initialized
      /\ DenseFirst = SparseFirst
      /\ req.env.scores[Position(sparse_documents, SparseFirst)] > 0 )
    => /\ Results # <<>>
       /\ Results[1].seg = DenseFirst
       /\ Results[1].id = DenseId(DenseFirst)
       /\ Results[1].text = collection[DenseFirst].text
       /\ Results[1].retrieval_source = "hybrid"

\* C2: whatever the query and n >= 0, and whichever strategy served the
\* request, the returned list has at most n results.
C2_AtMostN == pc = "done" => Len(Results) <= req.n

\* more candidates than n were at hand on each strategy and n came back
C2_Truncated ==
    /\ pc = "done"
    /\ req.n >= 1
    /\ Len(Results) = req.n
    /\ \/ resp.strategy = "section" /\ HeadingCount(collection) > req.n
       \/ resp.strategy = "general" /\ Len(collection) > req.n

\* C3: in one response no segment appears twice, also when the general
\* strategy gets a segment from the dense path at one list position and from
\* the sparse path under another index.
C3_NoSegmentTwice ==
    pc = "done" =>
        \A i, j \in 1..Len(Results) : i # j => Results[i].seg # Results[j].seg

\* C4: the rank fields of a response, read in list order, are 1, 2, ...,
\* len(results), also when a fused candidate was dropped during assembly.
C4_RanksContiguous ==
    pc = "done" => \A i \in 1..Len(Results) : Results[i].rank = i

\* C5: a request is served by exactly one strategy: the section-heading one
\* whenever the classifier flags a section-heading query, also when it flags
\* image intent too; otherwise the image-first one whenever image intent is
\* flagged; otherwise the general hybrid one.
C5_StrategyPriority ==
    pc = "done" =>
        LET flags == Classified[req.retrieve_query]
        IN /\ flags.is_section => resp.strategy = "section"
           /\ (~flags.is_section /\ flags.is_image) => resp.strategy = "image"
           /\ (~flags.is_section /\ ~flags.is_image) => resp.strategy = "general"

\* a query flagged both ways was served by the section-heading strategy
C5_BothFlagged ==
    /\ pc = "done"
    /\ Classified[req.retrieve_query].is_section
    /\ Classified[req.retrieve_query].is_image
    /\ resp.strategy = "section"
    /\ Results # <<>>

C7_BackfillReachesN ==
    ( /\ FaultFree
      /\ resp.strategy = "section"
      /\ HeadingCount(collection) < req.n
      /\ Len(collection) - HeadingCount(collection) >= req.n - HeadingCount(collection) )
    => Len(Results) = req.n

ImageCount(coll) == Cardinality({i \in 1..Len(coll) : IsImageMeta(coll[i])})

CeilHalf(n) == (n + 1) \div 2

\* C8: for an image-intent query with n >= 1 over a corpus with at least
\* ceil(n/2) image segments, every result in the first ceil(n/2) slots of the
\* response satisfies the image predicate.
C8_ImagesInFirstSlots ==
    ( /\ FaultFree
      /\ resp.strategy = "image"
      /\ req.n >= 1
      /\ ImageCount(collection) >= CeilHalf(req.n) )
    => \A r \in 1..CeilHalf(req.n) :
          r <= Len(Results) => IsImageMeta(collection[Results[r].seg])

\* the images the request places first, and the unrestricted dense candidates
\* that are not among them
PlacedImages ==
    LET image_ids == VectorStoreQuery(collection, req.env.order, req.n * 2, TRUE, FALSE)
        considered == Take(image_ids, req.n \div 2)
    IN {considered[i] : i \in 1..Len(considered)}

UnplacedCandidates ==
    LET dense_ids == VectorStoreQuery(collection, req.env.order, req.n * 2, FALSE, FALSE)
    IN {dense_ids[i] : i \in 1..Len(dense_ids)} \ PlacedImages

\* C9: in the image-first strategy, whenever the unrestricted dense list of
\* 2n candidates holds enough segments not already placed as images, the
\* response has exactly n results.
C9_FillReachesN ==
    ( /\ FaultFree
      /\ resp.strategy = "image"
      /\ Cardinality(UnplacedCandidates) >= req.n - Cardinality(PlacedImages) )
    => Len(Results) = req.n

\* C10: for a query submitted through search with query enhancement on, the
\* strategy follows the classification of the original query: the image-first
\* strategy is not used unless the original query has image intent, nor the
\* section-heading strategy unless the original query is a section query.
C10_ClassifiesOriginalQuery ==
    (pc = "done" /\ req.via = "search" /\ enable_query_enhancement)
    => /\ ~Classified[req.query].is_image => resp.strategy # "image"
       /\ ~Classified[req.query].is_section => resp.strategy # "section"

\* what the caller of the request in progress gets back
Outcome == IF req.via = "search" THEN SearchResponse(req.query, Results) ELSE Results

\* what the same request gives back when no store call fails and neither the
\* dense nor the sparse path has a candidate (nothing is indexed)
AbsenceOutcome ==
    LET nothing == [order |-> <<>>, scores |-> <<>>, fault |-> "none"]
        raw_results == retrieve(<<>>, <<>>, FALSE, req.retrieve_query, req.n, "", nothing).results
    IN IF req.via = "search" THEN SearchResponse(req.query, raw_results) ELSE raw_results

\* C11: absence of results is distinguishable from failure: what retrieve or
\* search gives back when retrieval raised an error differs from what it gives
\* back when the dense and the sparse path have no candidates.
C11_FailureDistinctFromAbsence ==
    (pc = "done" /\ resp.strategy = "general" /\ resp.raised /\ collection # <<>> /\ req.n >= 1)
    => Outcome # AbsenceOutcome

\* the segments of the response, in list order
ResultSegs == [i \in 1..Len(Results) |-> Results[i].seg]

\* the rankings the two paths give, or would give, for the request in progress
DenseRanking == VectorStoreQuery(collection, req.env.order, req.n * 2, FALSE, FALSE)
SparseRanking ==
    LET sparse_results == SparseQuery(is_initialized, req.env.scores, req.n * 2, FALSE)
    IN [i \in 1..Len(sparse_results) |-> sparse_documents[sparse_results[i].idx + 1]]

\* the segments of a ranking that carry a text
WithText(ranking) ==
    LET HasText(seg) == collection[seg].text # ""
    IN SelectSeq(ranking, HasText)

\* C12: in the general hybrid strategy the failure of one path degrades to the
\* ranking of the other: when the dense path fails (the query embedding or the
\* vector-store query) and the sparse index has candidates, the response is
\* the sparse ranking; when the sparse query fails and the dense path has
\* candidates, the response is the dense ranking.
C12_SinglePathFailureDegrades ==
    (pc = "done" /\ resp.strategy = "general" /\ req.n >= 1)
    => /\ (req.env.fault \in {"embed_query", "collection_query"} /\ is_initialized)
          => ResultSegs = Take(SparseRanking, req.n)
       /\ (req.env.fault = "bm25" /\ collection # <<>>)
          => ResultSegs = WithText(Take(DenseRanking, req.n))

\* C13: a retrieve that interleaves with build_index or with
\* SparseIndex.add_documents computes its response against one index
\* snapshot: the text and the metadata a sparse result carries are those of
\* the document the BM25 statistics scored under that index.
C13_OneSnapshot ==
    (reader.pc = "done" /\ reader.outcome = "result")
    => /\ reader.text = reader.scored[reader.idx + 1]
       /\ reader.metadata = reader.scored[reader.idx + 1]

\* the segments each store holds
DenseSegments == 1..Len(collection)
SparseSegments == {sparse_documents[i] : i \in 1..Len(sparse_documents)}

\* C14: after the construction of an index builder and after any sequence of
\* build_index calls, the sparse index holds exactly the segments the dense
\* store holds.
C14_StoresMirror == SparseSegments = DenseSegments

\* C15: every item retrieve returns carries a provenance tag, on the
\* section-heading, the image-first and the general hybrid strategy.
C15_ProvenanceOnEveryItem ==
    pc = "done"
    => \A r \in 1..Len(Results) : Results[r].retrieval_source \in {"dense", "sparse", "hybrid"}

\* C16: every result retrieve returns has a score of at least zero, on every
\* strategy, the dense-only and sparse-only fallbacks of the general
\* strategy included.
C16_ScoresNonNegative ==
    pc = "done" => \A r \in 1..Len(Results) : ~RatLess(Results[r].score, Rat(0, 1))

\* the lists the two paths hand to the fusion step of the request in progress
DenseIds ==
    VectorStoreQuery(collection, req.env.order, req.n * 2, FALSE,
                     req.env.fault = "collection_query")
DenseList == DenseResults(req.env.order, DenseIds)
SparseList == SparseQuery(is_initialized, req.env.scores, req.n * 2, req.env.fault = "bm25")
SparseSegs == [i \in 1..Len(SparseList) |-> sparse_documents[SparseList[i].idx + 1]]
IdxOrder(list) == [i \in 1..Len(list) |-> list[i].idx]

\* C17: reciprocal rank fusion of a list with the empty list keeps the order
\* of that list; and in the general strategy, when the sparse list is empty
\* the results come in the order of the dense list, when the dense list is
\* empty they come in the order of the sparse list, and neither is an error.
C17_RrfDegeneracy ==
    (pc = "done" /\ resp.strategy = "general" /\ req.env.fault # "embed_query")
    => /\ IdxOrder(reciprocal_rank_fusion(DenseList, <<>>, RrfK)) = IdxOrder(DenseList)
       /\ IdxOrder(reciprocal_rank_fusion(<<>>, SparseList, RrfK)) = IdxOrder(SparseList)
       /\ SparseList = <<>>
          => ~resp.raised /\ ResultSegs = WithText(Take(DenseIds, req.n))
       /\ DenseList = <<>>
          => ~resp.raised /\ ResultSegs = Take(SparseSegs, req.n)

\* two results in dense order from a request whose sparse list was empty
C17_DenseOnlyTwoResults ==
    /\ pc = "done" /\ resp.strategy = "general" /\ ~resp.raised
    /\ SparseList = <<>>
    /\ Len(Results) = 2
    /\ Results[1].retrieval_source = "dense"

\* the request in progress is a direct call of SparseIndex.query
SparseCall == pc = "done" /\ req.via = "sparse_index"
NoTokens == Split(Lower(req.query)) = <<>>

\* C18: SparseIndex.query returns the empty list, and does not raise, when no
\* document has been added to the index or when the query has no token, for
\* every n_results.
C18_EmptyBeforeAddOrWithoutTokens ==
    (SparseCall /\ (~is_initialized \/ NoTokens)) => (Results = <<>> /\ ~resp.raised)

\* the scores bm25 gave to the documents, by index
ScoreOf(idx) == Rat(GetScores(Split(Lower(req.query)), req.env.scores)[idx + 1], 1)
Returned == {Results[r].idx : r \in 1..Len(Results)}

\* C19: SparseIndex.query(text, k), for a text with tokens, returns at most k
\* segments, the highest scoring ones, in descending order of score, segments
\* of equal score in the order of their insertion, and no segment whose score
\* is zero or less.
C19_TopKPositiveStable ==
    (SparseCall /\ req.env.fault = "none" /\ ~NoTokens)
    => /\ Len(Results) <= req.n
       /\ \A i, j \in 1..Len(Results) :
             i < j => /\ ~RatLess(Results[i].score, Results[j].score)
                      /\ Results[i].score = Results[j].score
                         => Results[i].idx < Results[j].idx
       /\ \A r \in 1..Len(Results) : \A idx \in 0..(Len(sparse_documents) - 1) :
             idx \notin Returned => ~RatLess(Results[r].score, ScoreOf(idx))
       /\ \A r \in 1..Len(Results) : RatLess(Rat(0, 1), Results[r].score)

\* the terms enhance_query appends to the query of the request in progress
AppendedTerms ==
    LET sorted_terms == Take(SortedStrings(EnhancedTerms(req.query, analyze_query(req.query))),
                             query_enhancement_max_terms)
    IN {sorted_terms[i] : i \in 1..Len(sorted_terms)}

\* C20: the enhanced query begins with the query verbatim, and no term appended
\* after it occurs in the query already, compared case-insensitively.
C20_EnhancementNonDestructive ==
    (pc = "done" /\ req.via = "search")
    => /\ OccursAt(req.retrieve_query, req.query, 1)
       /\ \A term \in AppendedTerms : ~Contains(Lower(req.query), Lower(term))

\* the analysis search makes of the query of the request in progress
QueryAnalysis == analyze_query(req.query)
Holds(analysis, key, value) == key \in DOMAIN analysis /\ analysis[key] = value

\* C21: the analysis of a query that asks to list the images of a numbered
\* session has is_module_query, is_visual_query and is_image_listing true, the
\* intent module_image_listing and the session's number as module_number.
C21_ModuleImageListing ==
    (pc = "done" /\ req.via = "search" /\ req.query = "List all images from Session 5")
    => /\ Holds(QueryAnalysis, "is_module_query", TRUE)
       /\ Holds(QueryAnalysis, "is_visual_query", TRUE)
       /\ Holds(QueryAnalysis, "is_image_listing", TRUE)
       /\ Holds(QueryAnalysis, "intent", "module_image_listing")
       /\ Holds(QueryAnalysis, "module_number", "5")

\* the fusion of the two lists of the request in progress
Fused == reciprocal_rank_fusion(DenseList, SparseList, RrfK)
IdsOf(list) == {list[i].idx : i \in 1..Len(list)}
\* the 1-indexed position of an id in a list, 0 when the list does not hold it
RankIn(list, idx) ==
    IF idx \in IdsOf(list) THEN CHOOSE r \in 1..Len(list) : list[r].idx = idx ELSE 0
\* weight / (k + rank), the weight in tenths; nothing for rank 0
Reciprocal(weight, rank) == IF rank = 0 THEN Rat(0, 1) ELSE Rat(weight, 10 * (RrfK + rank))

\* C22: reciprocal_rank_fusion returns exactly one item per id of either list;
\* its score is alpha/(k + dense rank) plus (1 - alpha)/(k + sparse rank), a
\* term left out when the id is not in that list; its tag is hybrid when the
\* id is in both lists, dense or sparse when it is in that list only.
C22_OneItemPerIdScoredAndTagged ==
    (pc = "done" /\ resp.strategy = "general")
    => /\ IdsOf(Fused) = IdsOf(DenseList) \cup IdsOf(SparseList)
       /\ Len(Fused) = Cardinality(IdsOf(DenseList) \cup IdsOf(SparseList))
       /\ \A i \in 1..Len(Fused) :
             LET dense_rank == RankIn(DenseList, Fused[i].idx)
                 sparse_rank == RankIn(SparseList, Fused[i].idx)
             IN /\ Fused[i].score = RatAdd(Reciprocal(AlphaTenths, dense_rank),
                                           Reciprocal(10 - AlphaTenths, sparse_rank))
                /\ Fused[i].source = IF dense_rank > 0 /\ sparse_rank > 0 THEN "hybrid"
                                     ELSE IF dense_rank > 0 THEN "dense"
                                     ELSE "sparse"

\* a fusion that yields a hybrid, a dense-only and a sparse-only item
C22_AllThreeTags ==
    /\ pc = "done" /\ resp.strategy = "general"
    /\ {Fused[i].source : i \in 1..Len(Fused)} = {"hybrid", "dense", "sparse"}

\* item a of the fused list comes before item b under the tie order: by dense
\* rank, an item with a dense rank before one without, then by sparse rank
TieOrder(a, b) ==
    LET dense_a == RankIn(DenseList, a.idx)
        dense_b == RankIn(DenseList, b.idx)
    IN IF dense_a > 0 /\ dense_b > 0 THEN dense_a < dense_b
       ELSE IF dense_a > 0 \/ dense_b > 0 THEN dense_a > 0
       ELSE RankIn(SparseList, a.idx) < RankIn(SparseList, b.idx)

\* C23: the output of reciprocal_rank_fusion is in descending order of fused
\* score, and items of equal fused score are ordered by dense rank (an item
\* with a dense rank before one without), then by sparse rank.
C23_DescendingWithTieOrder ==
    (pc = "done" /\ resp.strategy = "general")
    => \A i, j \in 1..Len(Fused) :
          i < j => /\ ~RatLess(Fused[i].score, Fused[j].score)
                   /\ Fused[i].score = Fused[j].score => TieOrder(Fused[i], Fused[j])

\* two hybrid items of equal fused score
C23_TiedHybrids ==
    /\ pc = "done" /\ resp.strategy = "general"
    /\ \E i, j \in 1..Len(Fused) :
          /\ i < j /\ Fused[i].score = Fused[j].score
          /\ Fused[i].source = "hybrid" /\ Fused[j].source = "hybrid"

\* the strings of the model that match a generic overview, topic or summary
\* pattern
GeneralQuestion ==
    [q \in ClassifiedQueries |->
        \E pattern \in general_question_patterns : SearchB(Lower(q), pattern)]

\* C24: is_image_query is false for every query that matches a generic
\* overview, topic or summary pattern, also when a visual phrase, the noun and
\* verb heuristic or a visual pattern matches it.
C24_GeneralQuestionNotImage ==
    (pc = "done" /\ req.via = "retrieve" /\ GeneralQuestion[req.retrieve_query])
    => ~Classified[req.retrieve_query].is_image

\* the request in progress is a call of highlight_query_terms on a text with
\* query terms
HighlightCall ==
    /\ pc = "done" /\ req.via = "highlight_query_terms"
    /\ req.text # "" /\ req.query_terms # <<>>
\* the starts of all windows of max_length characters of the text
WindowStarts ==
    IF Len(req.text) <= req.max_length THEN {0} ELSE 0..(Len(req.text) - req.max_length)
TermsIn(start) == MatchCount(Lower(req.text), req.query_terms, start, req.max_length)

\* C25: no window of max_length consecutive characters of the text contains
\* more query terms than the window highlight_query_terms cuts its snippet from.
C25_BestWindow ==
    HighlightCall => \A start \in WindowStarts : TermsIn(start) <= TermsIn(Results.best_start)

\* the request in progress is the grouping and ranking of a list of results
GroupCall == pc = "done" /\ req.via = "group_and_rank"
RankedSources == Results.ranked_sources
\* the sum of the scores of a group plus 0.1 for every member after the first
Aggregate(group) ==
    LET sum[i \in 0..Len(group)] ==
            IF i = 0 THEN Rat(0, 1) ELSE RatAdd(sum[i - 1], group[i].score)
    IN RatAdd(sum[Len(group)], Rat(Len(group) - 1, 10))
\* the position in the results of the first member of a group
FirstSeen(group) == group[1].rank

\* C26: rank_sources_by_relevance returns the groups in non-increasing order of
\* aggregate score, the sum of the members' scores plus 0.1 times the member
\* count less one; groups of equal aggregate keep the order in which their
\* sources first appeared in the results.
C26_SourcesByAggregate ==
    GroupCall
    => \A i, j \in 1..Len(RankedSources) :
          i < j
          => /\ ~RatLess(Aggregate(RankedSources[i][2]), Aggregate(RankedSources[j][2]))
             /\ Aggregate(RankedSources[i][2]) = Aggregate(RankedSources[j][2])
                => FirstSeen(RankedSources[i][2]) < FirstSeen(RankedSources[j][2])

\* a group of two members ranked, by its bonus, above a source that appeared
\* first and scores more than the two together
C26_BoostedGroupFirst ==
    /\ GroupCall
    /\ Len(RankedSources) = 2
    /\ Len(RankedSources[1][2]) = 2
    /\ FirstSeen(RankedSources[2][2]) = 1
    /\ RatLess(TotalScore(RankedSources[1][2]), RankedSources[2][2][1].score)

\* no call of add_documents is in progress on the index object k
AtRest(k) == writer.pc \in {"idle", "swap"} \/ writer.target # k
\* the last m elements of a sequence
Last(seq, m) == SubSeq(seq, Len(seq) - m + 1, Len(seq))

IsAlnum(c) == IndexIn(LowerAlpha, c) > 0 \/ IndexIn(UpperAlpha, c) > 0 \/ IndexIn(Digits, c) > 0
AlnumRuns(s) ==
    LET IsStart(i) == IsAlnum(CharAt(s, i)) /\ (i = 1 \/ ~IsAlnum(CharAt(s, i - 1)))
        IsEnd(i) == IsAlnum(CharAt(s, i)) /\ (i = Len(s) \/ ~IsAlnum(CharAt(s, i + 1)))
        starts == SelectSeq([i \in 1..Len(s) |-> i], IsStart)
        ends == SelectSeq([i \in 1..Len(s) |-> i], IsEnd)
    IN [w \in 1..Len(starts) |-> SubSeq(s, starts[w], ends[w])]

\* C28: the tokens of the query and of every indexed document are the
\* lower-cased text split at every character that is not a letter or a digit.
C28_TokensSplitAtNonAlphanumerics ==
    SparseCall
    => /\ Split(Lower(req.query)) = AlnumRuns(Lower(req.query))
       /\ \A i \in 1..Len(sparse_documents) :
             TokenizedDocs(collection, sparse_documents)[i]
                 = AlnumRuns(Lower(collection[sparse_documents[i]].text))

\* C29: search returns a response whose total_results is the length of its
\* results, and when retrieval raised, the response has no results, a
\* total_results of 0 and an 'error' entry.
C29_SearchReportsEveryFailure ==
    (pc = "done" /\ req.via = "search")
    => LET response == SearchResponse(req.query, Results)
       IN /\ response.query = req.query
          /\ response.total_results = Len(response.results)
          /\ resp.raised => /\ response.results = <<>>
                            /\ response.total_results = 0
                            /\ response.error # "absent"

GroupedResults == Results.grouped_results
\* the groups that hold the result of rank i
GroupsHolding(i) ==
    {k \in DOMAIN GroupedResults.info :
        \E p \in 1..Len(GroupedResults.info[k]) : GroupedResults.info[k][p].rank = i}

\* C30: in a non-empty response grouped_results is a partition of results:
\* every result is in exactly one source group, the members of a group are results
\* in their relative order, no group is empty, and ranked_sources lists every
\* group of grouped_results exactly once.
C30_GroupsPartitionResults ==
    (GroupCall /\ req.results # <<>>)
    => /\ \A i \in 1..Len(req.results) : Cardinality(GroupsHolding(i)) = 1
       /\ \A k \in DOMAIN GroupedResults.info :
             LET group == GroupedResults.info[k]
             IN /\ group # <<>>
                /\ \A p \in 1..Len(group) :
                      /\ group[p].rank \in 1..Len(req.results)
                      /\ group[p] = req.results[group[p].rank]
                /\ \A p, q \in 1..Len(group) : p < q => group[p].rank < group[q].rank
                /\ Cardinality({i \in 1..Len(RankedSources) : RankedSources[i][1] = k}) = 1
                /\ \A i \in 1..Len(RankedSources) :
                      RankedSources[i][1] = k => RankedSources[i][2] = group
       /\ Len(RankedSources) = Cardinality(DOMAIN GroupedResults.info)
       /\ \A i \in 1..Len(RankedSources) : RankedSources[i][1] \in DOMAIN GroupedResults.info

\* three results of two sources, the first and the third of the same one
C30_InterleavedSources ==
    /\ GroupCall
    /\ Len(req.results) = 3
    /\ Cardinality(DOMAIN GroupedResults.info) = 2
    /\ GroupsHolding(1) = GroupsHolding(3)
    /\ GroupsHolding(1) # GroupsHolding(2)

====
